---- MODULE Spec2Model ----
(***************************************************************************)
(* Template & version consistency engine of docfactory-backend:            *)
(* internal/templates (models.go, repository.go, service.go).              *)
(*                                                                         *)
(* The state is the in-memory repository (the template map, the version    *)
(* map and its readers-writer lock), the identifier generator, the wall    *)
(* clock, and for every calling thread the position of its TemplateService *)
(* call together with that call's local variables.                         *)
(***************************************************************************)
EXTENDS Integers, Sequences, FiniteSets, TLC

VARIABLES
    templates,  \* inMemoryRepository.templates : TemplateID -> Template
    versions,   \* inMemoryRepository.versions  : TemplateID -> list of TemplateVersion
    mu,         \* inMemoryRepository.mu        : sync.RWMutex
    clock,      \* time.Now().UTC()
    th,         \* per thread: the TemplateService call it is running
    last,       \* the service call that returned in the step just taken, if any
    accepted,   \* per template: the mutations that returned success so far
    limit       \* the number of records the run lets the repository hold

vars == <<templates, versions, mu, clock, th, last, accepted, limit>>

(***************************************************************************)
(* Bounds of the model.                                                    *)
(***************************************************************************)
MaxRecords == 5    \* templates and history entries the repository comes to hold
MaxClock == 1      \* the clock ticks at most this often

Threads == {"a", "b"}
NoThread == "none"

Tenants == {"t1", "t2"}
NoTime == -1       \* a nil *time.Time
NoID == 0          \* the empty identifier ""

(***************************************************************************)
(* Strings whose length matters (Name, Description) are sequences of       *)
(* chunks; a chunk is a piece of text of known length and known leading    *)
(* and trailing white space.  Concatenation is \o.                         *)
(***************************************************************************)
ChunkLen(c) ==
    CASE c = "ab" -> 2
      [] c = "Warranty EU" -> 11
      [] c = "Warranty EU v2" -> 14
      [] c = " Copy" -> 5
      [] c = "   " -> 3
      [] c = "N96" -> 96
      [] c = "D501" -> 501
      [] OTHER -> 1

ChunkLead(c) == CASE c = " Copy" -> 1 [] c = "   " -> 3 [] OTHER -> 0
ChunkTrail(c) == CASE c = "   " -> 3 [] OTHER -> 0
AllSpace(c) == c = "   "

RECURSIVE StrLen(_)
StrLen(s) == IF s = <<>> THEN 0 ELSE ChunkLen(Head(s)) + StrLen(Tail(s))

RECURSIVE DropLeadSpace(_)
DropLeadSpace(s) ==
    IF s = <<>> THEN s
    ELSE IF AllSpace(Head(s)) THEN DropLeadSpace(Tail(s)) ELSE s

RECURSIVE DropTrailSpace(_)
DropTrailSpace(s) ==
    IF s = <<>> THEN s
    ELSE IF AllSpace(s[Len(s)]) THEN DropTrailSpace(SubSeq(s, 1, Len(s) - 1)) ELSE s

\* len(strings.TrimSpace(s))
TrimLen(s) ==
    LET core == DropTrailSpace(DropLeadSpace(s))
    IN  IF core = <<>> THEN 0
        ELSE StrLen(core) - ChunkLead(Head(core)) - ChunkTrail(core[Len(core)])

DocumentTypes == {"warranty", "instruction", "certificate", "label"}
PageSizes == {"A4", "A5", "Letter"}
Orientations == {"portrait", "landscape"}

MinNameLen == 3
MaxNameLen == 100
MaxDescriptionLen == 500

(***************************************************************************)
(* Validation.  The result is "" for nil, otherwise the error's message.   *)
(***************************************************************************)
ValidateTemplate(t) ==
    IF t.TenantID = "" THEN "tenant_id is required"
    ELSE IF TrimLen(t.Name) < MinNameLen \/ StrLen(t.Name) > MaxNameLen
         THEN "name must be between 3 and 100 characters"
    ELSE IF StrLen(t.Description) > MaxDescriptionLen
         THEN "description must be <= 500 characters"
    ELSE IF t.DocumentType \notin DocumentTypes THEN "document_type is invalid"
    ELSE IF t.PageSize \notin PageSizes THEN "page_size is invalid"
    ELSE IF t.Orientation \notin Orientations THEN "orientation is invalid"
    ELSE IF t.JSONSchemaURL = "" THEN "json_schema_url is required"
    ELSE IF t.CreatedBy = "" THEN "created_by is required"
    ELSE IF t.UpdatedBy = "" THEN "updated_by is required"
    ELSE ""

ValidateVersion(tv) ==
    IF tv.TemplateID = NoID THEN "template_id is required"
    ELSE IF tv.VersionNumber <= 0 THEN "version_number must be positive"
    ELSE IF tv.JSONSchemaURL = "" THEN "json_schema_url is required"
    ELSE IF tv.CreatedBy = "" THEN "created_by is required"
    ELSE ""

(***************************************************************************)
(* Go maps: a missing key reads as the zero value.                         *)
(***************************************************************************)
Put(f, k, v) == [x \in (DOMAIN f) \cup {k} |-> IF x = k THEN v ELSE f[x]]
VersionsOf(V, k) == IF k \in DOMAIN V THEN V[k] ELSE <<>>

\* a faulty Missing: the tenant of the stored template is not compared
MissingAnyTenant(T, tenantID, templateID) == templateID \notin DOMAIN T

\* !ok || tpl.TenantID != tenantID
Missing(T, tenantID, templateID) ==
    templateID \notin DOMAIN T \/ T[templateID].TenantID # tenantID

Ok(v) == [err |-> "ok", val |-> v]
Fail(kind, msg) == [err |-> kind, val |-> msg]
ErrNotFound == Fail("NotFound", "templates: resource not found")
ErrConflict == Fail("Conflict", "templates: conflict detected")
\* a validation error is a plain errors.New value: it wraps no sentinel
Plain(msg) == Fail("Other", msg)

(***************************************************************************)
(* The repository's operations as functions of the two maps.  Each yields  *)
(* the maps after the call (T, V) and the call's result (res).             *)
(***************************************************************************)
Out(T, V, res) == [T |-> T, V |-> V, res |-> res]

RepoGetTemplate(T, V, tenantID, templateID) ==
    IF Missing(T, tenantID, templateID) THEN Out(T, V, ErrNotFound)
    ELSE Out(T, V, Ok(T[templateID]))

RepoCreateTemplate(T, V, tpl) ==
    IF tpl.TemplateID \in DOMAIN T THEN Out(T, V, ErrConflict)
    ELSE Out(Put(T, tpl.TemplateID, tpl), V, Ok(tpl))

\* a faulty UpdateTemplate: the tenant of the stored record is not compared
RepoUpdateTemplateAnyTenant(T, V, tpl) ==
    IF tpl.TemplateID \notin DOMAIN T THEN Out(T, V, ErrNotFound)
    ELSE Out(Put(T, tpl.TemplateID, tpl), V, Ok(tpl))

\* a faulty UpdateTemplate: the record is written before the lookup decides
RepoUpdateTemplateStoresFirst(T, V, tpl) ==
    IF Missing(T, tpl.TenantID, tpl.TemplateID)
    THEN Out(IF tpl.TemplateID \in DOMAIN T THEN Put(T, tpl.TemplateID, tpl) ELSE T,
             V, ErrNotFound)
    ELSE Out(Put(T, tpl.TemplateID, tpl), V, Ok(tpl))

RepoUpdateTemplate(T, V, tpl) ==
    IF Missing(T, tpl.TenantID, tpl.TemplateID) THEN Out(T, V, ErrNotFound)
    ELSE Out(Put(T, tpl.TemplateID, tpl), V, Ok(tpl))

\* a faulty SoftDeleteTemplate: the record is removed from the map
RepoSoftDeleteTemplateRemoves(T, V, tenantID, templateID, now) ==
    IF Missing(T, tenantID, templateID) THEN Out(T, V, ErrNotFound)
    ELSE Out([id \in (DOMAIN T) \ {templateID} |-> T[id]], V, Ok(<<>>))

RepoSoftDeleteTemplate(T, V, tenantID, templateID, now) ==
    IF Missing(T, tenantID, templateID) THEN Out(T, V, ErrNotFound)
    ELSE Out([T EXCEPT ![templateID].DeletedAt = now], V, Ok(<<>>))

\* a faulty RestoreTemplate: the restored record counts as a new version
RepoRestoreTemplateBumps(T, V, tenantID, templateID) ==
    IF Missing(T, tenantID, templateID) THEN Out(T, V, ErrNotFound)
    ELSE LET tpl == [T[templateID] EXCEPT !.DeletedAt = NoTime, !.Version = @ + 1]
         IN  Out([T EXCEPT ![templateID] = tpl], V, Ok(tpl))

RepoRestoreTemplate(T, V, tenantID, templateID) ==
    IF Missing(T, tenantID, templateID) THEN Out(T, V, ErrNotFound)
    ELSE LET tpl == [T[templateID] EXCEPT !.DeletedAt = NoTime]
         IN  Out([T EXCEPT ![templateID] = tpl], V, Ok(tpl))

RepoListVersions(T, V, tenantID, templateID) ==
    IF Missing(T, tenantID, templateID) THEN Out(T, V, ErrNotFound)
    ELSE Out(T, V, Ok(VersionsOf(V, templateID)))

\* for i := range r.versions[id] { r.versions[id][i].IsCurrent = false }
ClearCurrent(h) == [i \in 1..Len(h) |-> [h[i] EXCEPT !.IsCurrent = FALSE]]

\* a faulty CreateVersion: the template is not looked up
RepoCreateVersionUnchecked(T, V, tenantID, version) ==
    IF ValidateVersion(version) # "" THEN Out(T, V, Plain(ValidateVersion(version)))
    ELSE Out(T,
             Put(V, version.TemplateID,
                 Append(ClearCurrent(VersionsOf(V, version.TemplateID)), version)),
             Ok(version))

\* a faulty CreateVersion: the new entry replaces the history
RepoCreateVersionReplaces(T, V, tenantID, version) ==
    IF Missing(T, tenantID, version.TemplateID) THEN Out(T, V, ErrNotFound)
    ELSE IF ValidateVersion(version) # "" THEN Out(T, V, Plain(ValidateVersion(version)))
    ELSE Out(T, Put(V, version.TemplateID, <<version>>), Ok(version))

RepoCreateVersion(T, V, tenantID, version) ==
    IF Missing(T, tenantID, version.TemplateID) THEN Out(T, V, ErrNotFound)
    ELSE IF ValidateVersion(version) # "" THEN Out(T, V, Plain(ValidateVersion(version)))
    ELSE Out(T,
             Put(V, version.TemplateID,
                 Append(ClearCurrent(VersionsOf(V, version.TemplateID)), version)),
             Ok(version))

\* the first index whose entry carries the number, 0 when there is none
FirstWithNumber(h, n) ==
    IF \E i \in 1..Len(h) : h[i].VersionNumber = n
    THEN CHOOSE i \in 1..Len(h) :
            /\ h[i].VersionNumber = n
            /\ \A j \in 1..(i - 1) : h[j].VersionNumber # n
    ELSE 0

\* a faulty RestoredClone: the copy keeps the restored entry's timestamp
RestoredCloneKeepsCreatedAt(restored, tpl) ==
    [restored EXCEPT !.IsCurrent = TRUE,
                     !.VersionNumber = tpl.Version]

\* the entry RestoreVersion appends: a copy of the restored entry
RestoredClone(restored, tpl) ==
    [restored EXCEPT !.IsCurrent = TRUE,
                     !.VersionNumber = tpl.Version,
                     !.CreatedAt = tpl.UpdatedAt]

\* a faulty RestoredTemplate: the version rewinds to the restored number
RestoredTemplateRewinds(tpl, restored, now) ==
    [tpl EXCEPT !.JSONSchemaURL = restored.JSONSchemaURL,
                !.Version = restored.VersionNumber,
                !.UpdatedAt = now,
                !.UpdatedBy = restored.CreatedBy]

\* the live template after RestoreVersion
RestoredTemplate(tpl, restored, now) ==
    [tpl EXCEPT !.JSONSchemaURL = restored.JSONSchemaURL,
                !.Version = tpl.Version + 1,
                !.UpdatedAt = now,
                !.UpdatedBy = restored.CreatedBy]

RepoRestoreVersion(T, V, tenantID, templateID, versionNumber, now) ==
    IF Missing(T, tenantID, templateID) THEN Out(T, V, ErrNotFound)
    ELSE LET h == VersionsOf(V, templateID)
             i == FirstWithNumber(h, versionNumber)
         IN  IF i = 0 THEN Out(T, V, ErrNotFound)
             ELSE LET tpl == RestoredTemplate(T[templateID], h[i], now)
                      clone == RestoredClone(h[i], tpl)
                  IN  Out([T EXCEPT ![templateID] = tpl],
                          Put(V, templateID, Append(h, clone)),
                          Ok(clone))

\* the last index whose entry carries the number (the loop keeps overwriting)
LastWithNumber(h, n) ==
    IF \E i \in 1..Len(h) : h[i].VersionNumber = n
    THEN CHOOSE i \in 1..Len(h) :
            /\ h[i].VersionNumber = n
            /\ \A j \in (i + 1)..Len(h) : h[j].VersionNumber # n
    ELSE 0

RepoCompareVersions(T, V, tenantID, templateID, left, right) ==
    IF Missing(T, tenantID, templateID) THEN Out(T, V, ErrNotFound)
    ELSE LET h == VersionsOf(V, templateID)
             \* switch: an entry numbered left is taken by "case left" alone
             li == LastWithNumber(h, left)
             ri == IF left = right THEN 0 ELSE LastWithNumber(h, right)
         IN  IF li = 0 \/ ri = 0 THEN Out(T, V, ErrNotFound)
             ELSE Out(T, V, Ok([TemplateID |-> templateID,
                                Left |-> h[li], Right |-> h[ri],
                                Summary |-> <<"left schema: ", h[li].JSONSchemaURL,
                                              ", right schema: ", h[ri].JSONSchemaURL>>]))

(***************************************************************************)
(* repo.ListTemplates and repo.CountTemplates.  The search text is         *)
(* normalised with strings.ToLower(strings.TrimSpace(...)) and looked for  *)
(* in the lower-cased name and description; a chunk is known by the search *)
(* words its lower-cased text contains.                                    *)
(***************************************************************************)
ListOpt(tenant, search, docType, deleted, lim, off) ==
    [TenantID |-> tenant, Search |-> search, DocumentType |-> docType,
     IncludeDeleted |-> deleted, Limit |-> lim, Offset |-> off]

\* strings.ToLower(strings.TrimSpace(opt.Search))
NormalizedSearch(search) ==
    CASE search = "   "        -> ""
      [] search = "Copy"       -> "copy"
      [] OTHER                 -> search

\* the normalised search words that strings.ToLower(c) contains
LowerWords(c) ==
    CASE c = "Warranty EU"    -> {"warranty", "eu"}
      [] c = "Warranty EU v2" -> {"warranty", "eu", "v2"}
      [] c = " Copy"          -> {"copy"}
      [] OTHER                -> {}

\* strings.Contains(strings.ToLower(s), search)
ContainsFold(s, search) == \E i \in 1..Len(s) : search \in LowerWords(s[i])

\* the filter of the listing loop without its test of the tenant
ListedAnyTenant(tpl, opt) ==
    /\ opt.IncludeDeleted \/ tpl.DeletedAt = NoTime
    /\ opt.DocumentType = "" \/ tpl.DocumentType = opt.DocumentType
    /\ \/ NormalizedSearch(opt.Search) = ""
       \/ ContainsFold(tpl.Name, NormalizedSearch(opt.Search))
       \/ ContainsFold(tpl.Description, NormalizedSearch(opt.Search))

\* the filter of the listing loop: tpl is not skipped
Listed(tpl, opt) ==
    /\ tpl.TenantID = opt.TenantID
    /\ opt.IncludeDeleted \/ tpl.DeletedAt = NoTime
    /\ opt.DocumentType = "" \/ tpl.DocumentType = opt.DocumentType
    /\ \/ NormalizedSearch(opt.Search) = ""
       \/ ContainsFold(tpl.Name, NormalizedSearch(opt.Search))
       \/ ContainsFold(tpl.Description, NormalizedSearch(opt.Search))

Matching(T, opt) == {id \in DOMAIN T : Listed(T[id], opt)}

\* the orders the map iteration and sort.Slice (not stable) can leave the
\* matching templates in: no template before one that was updated after it
SortedOrders(T, ids) ==
    {s \in [1..Cardinality(ids) -> ids] :
        /\ \A i, j \in 1..Cardinality(ids) : i # j => s[i] # s[j]
        /\ \A i, j \in 1..Cardinality(ids) : i < j => T[s[i]].UpdatedAt >= T[s[j]].UpdatedAt}

\* a faulty Page: the page starts at the first element whatever the offset
PageFromStart(result, opt) ==
    LET end == IF opt.Limit <= 0 \/ opt.Limit > Len(result)
               THEN Len(result) ELSE opt.Limit
    IN  IF opt.Offset > Len(result) THEN Ok(<<>>)
        ELSE IF opt.Offset < 0 THEN Fail("Panic", "slice bounds out of range")
        ELSE Ok(SubSeq(result, 1, end))

\* result[start:end] of a sorted result
Page(result, opt) ==
    LET start == opt.Offset
        end == IF opt.Limit <= 0 \/ start + opt.Limit > Len(result)
               THEN Len(result) ELSE start + opt.Limit
    IN  IF start > Len(result) THEN Ok(<<>>)
        ELSE IF start < 0 THEN Fail("Panic", "slice bounds out of range")
        ELSE Ok(SubSeq(result, start + 1, end))

\* the results repo.ListTemplates can return
RepoListTemplates(T, opt) ==
    {Page([i \in DOMAIN s |-> T[s[i]]], opt) : s \in SortedOrders(T, Matching(T, opt))}

RepoCountTemplates(T, opt) == Ok(Cardinality(Matching(T, opt)))

(***************************************************************************)
(* Inputs of the service calls.                                            *)
(***************************************************************************)
SchemaURLs == {"s3://schemas/v1.json", "s3://schemas/v2.json"}

\* a Template as a caller hands it to CreateTemplate (zero values elsewhere)
NewTemplate(tenant, name, docType, url, user) ==
    [TemplateID |-> NoID, TenantID |-> tenant, Name |-> name, Description |-> <<>>,
     DocumentType |-> docType, PageSize |-> "A4", Orientation |-> "portrait",
     JSONSchemaURL |-> url, ThumbnailURL |-> "", Version |-> 0,
     CreatedBy |-> user, UpdatedBy |-> user, CreatedAt |-> 0, UpdatedAt |-> 0,
     DeletedAt |-> NoTime, DocumentsCount |-> 0, LastUsedAt |-> NoTime]

(***************************************************************************)
(* The input sets come narrow (calls on stored templates by their tenant,  *)
(* and one call each on a template, a number or an input that is not       *)
(* there or not valid) and wide (also every other class of failing         *)
(* input).                                                                 *)
(***************************************************************************)
ValidInput == NewTemplate("t1", <<"Warranty EU">>, "warranty", "s3://schemas/v1.json", "u1")

CreateInputs(wide) ==
    {ValidInput, NewTemplate("t1", <<"ab">>, "warranty", "s3://schemas/v1.json", "u1")}
    \cup IF wide
         THEN {NewTemplate("t1", <<"Warranty EU">>, "invoice", "s3://schemas/v1.json", "u1"),
               NewTemplate("t1", <<"Warranty EU">>, "warranty", "", "u1"),
               NewTemplate("t1", <<"Warranty EU">>, "warranty", "s3://schemas/v1.json", ""),
               NewTemplate("", <<"Warranty EU">>, "warranty", "s3://schemas/v1.json", "u1"),
               [NewTemplate("t2", <<"Warranty EU">>, "label", "s3://schemas/v1.json", "u1")
                   EXCEPT !.DocumentsCount = 2, !.LastUsedAt = 0]}
         ELSE {}

OtherTenant(tn) == CHOOSE x \in Tenants : x # tn

\* the caller-supplied mutate func(*Template) error of UpdateTemplate
Mutations(wide) == {"schema"} \cup IF wide THEN {"retenant", "shorten", "fail"} ELSE {}

\* the template after mutate(tpl)
Mutate(m, tpl) ==
    CASE m = "schema"   -> [tpl EXCEPT !.JSONSchemaURL = "s3://schemas/v2.json"]
      [] m = "retenant" -> [tpl EXCEPT !.TenantID = OtherTenant(tpl.TenantID)]
      [] m = "shorten"  -> [tpl EXCEPT !.Name = <<"ab">>]
      [] OTHER          -> tpl

\* the error mutate returns ("" for nil)
MutateErr(m) == IF m = "fail" THEN "mutation rejected" ELSE ""

\* the (tenantID, templateID) a caller may address: a stored template under
\* its own tenant, a stored template under another tenant, and no template
OwnTargets ==
    {[tenantID |-> templates[id].TenantID, templateID |-> id] : id \in DOMAIN templates}
ForeignTargets(wide) ==
    {[tenantID |-> "t1", templateID |-> NoID]}
    \cup IF wide
         THEN {[tenantID |-> OtherTenant(templates[id].TenantID), templateID |-> id] :
                 id \in DOMAIN templates}
         ELSE {}
Targets(wide) == OwnTargets \cup ForeignTargets(wide)

(***************************************************************************)
(* newID(): an identifier that no record holds.                            *)
(***************************************************************************)
VersionIDs(h) == {h[i].VersionID : i \in 1..Len(h)}

UsedIDs ==
    (DOMAIN templates)
    \cup UNION {VersionIDs(versions[k]) : k \in DOMAIN versions}
    \cup {th[t].loc.tpl.TemplateID : t \in {x \in Threads : th[x].pc # "idle"}}
    \cup {th[t].loc.version.VersionID : t \in {x \in Threads : th[x].pc # "idle"}}

newID == CHOOSE i \in 1..limit : i \notin UsedIDs /\ \A j \in 1..(i - 1) : j \in UsedIDs

(***************************************************************************)
(* The bound of the model: the records stored, and those a call in flight  *)
(* has built and not yet stored, leave room for n more.                    *)
(***************************************************************************)
Stored ==
    Cardinality(DOMAIN templates)
    + Cardinality(UNION {{<<k, i>> : i \in 1..Len(versions[k])} : k \in DOMAIN versions})

Pending ==
    Cardinality({t \in Threads : th[t].loc.tpl.TemplateID \notin (DOMAIN templates) \cup {NoID}})
    + Cardinality({t \in Threads : th[t].loc.version.VersionID # NoID})

Room(n) == Stored + Pending + n <= limit

(***************************************************************************)
(* sync.RWMutex                                                            *)
(***************************************************************************)
\* a faulty Lock: a writer that does not wait for the readers
CanLockIgnoresReaders == mu.w = NoThread
CanLock == mu.w = NoThread /\ mu.r = {}
\* a faulty RLock: a reader that does not wait for the writer
CanRLockUnguarded == TRUE
CanRLock == mu.w = NoThread
Lock(t) == [mu EXCEPT !.w = t]
\* a faulty Unlock: a return path that leaves the lock held
UnlockKeeps(t) == mu
Unlock(t) == [mu EXCEPT !.w = NoThread]
RLock(t) == [mu EXCEPT !.r = @ \cup {t}]
RUnlock(t) == [mu EXCEPT !.r = @ \ {t}]

(***************************************************************************)
(* A thread is idle, inside the body of a repository call with the lock    *)
(* held (pc = "in"), or between two repository calls of one service call   *)
(* (pc = "call", about to make the repository call named in call).  loc    *)
(* holds the service call's local variables, and for DuplicateTemplate the  *)
(* length the source's history had when the call took the lock (sourceLen).*)
(***************************************************************************)
NoTemplate == [TemplateID |-> NoID]
NoVersion == [VersionID |-> NoID]
NoLocals ==
    [tpl |-> NoTemplate, version |-> NoVersion, now |-> 0, versions |-> <<>>, i |-> 0,
     sourceLen |-> 0, items |-> <<>>]
NoArgs == [tenantID |-> ""]

IdleThread == [pc |-> "idle", op |-> "", call |-> "", arg |-> NoArgs, loc |-> NoLocals]
NoReturn == [t |-> NoThread, op |-> "", arg |-> NoArgs, res |-> Ok(<<>>)]

\* the service call op(arg) of thread t returns res
Returned(t, op, arg, res) == [t |-> t, op |-> op, arg |-> arg, res |-> res]

\* a service call starts inside its first repository call c
Start(t, op, c, loc) ==
    [th EXCEPT ![t] = [pc |-> "in", op |-> op, call |-> c, arg |-> NoArgs, loc |-> loc]]

\* the service call goes on to the repository call c
Goto(t, c, arg, loc) ==
    [th EXCEPT ![t] = [pc |-> "call", op |-> th[t].op, call |-> c, arg |-> arg, loc |-> loc]]

\* the thread enters the pending repository call
Enter(t, loc) == [th EXCEPT ![t].pc = "in", ![t].loc = loc]

\* the accepted mutations of a template: the CreateTemplate, UpdateTemplate
\* and RestoreVersion calls that returned nil
NoneAccepted == [create |-> 0, up |-> 0, rv |-> 0]
AcceptedOf(id) == IF id \in DOMAIN accepted THEN accepted[id] ELSE NoneAccepted

Accept(op, arg, res) ==
    IF res.err # "ok" THEN accepted
    ELSE IF op = "CreateTemplate"
         THEN Put(accepted, res.val.TemplateID,
                  [AcceptedOf(res.val.TemplateID) EXCEPT !.create = @ + 1])
    ELSE IF op = "UpdateTemplate"
         THEN Put(accepted, arg.templateID,
                  [AcceptedOf(arg.templateID) EXCEPT !.up = @ + 1])
    ELSE IF op = "RestoreVersion"
         THEN Put(accepted, arg.templateID,
                  [AcceptedOf(arg.templateID) EXCEPT !.rv = @ + 1])
    ELSE accepted

\* the step of thread t ends its service call with res, or goes on
Done(t, arg, res) ==
    /\ th' = [th EXCEPT ![t] = IdleThread]
    /\ last' = Returned(t, th[t].op, arg, res)
    /\ accepted' = Accept(th[t].op, arg, res)
    /\ limit' = limit

Continue(t, c, arg, loc) ==
    /\ th' = Goto(t, c, arg, loc)
    /\ last' = NoReturn
    /\ accepted' = accepted
    /\ limit' = limit

At(t, pc, c) == th[t].pc = pc /\ th[t].call = c

\* NewInMemoryRepository, no call running; the run may store n records
InitStore(n) ==
    /\ templates = <<>>
    /\ versions = <<>>
    /\ mu = [w |-> NoThread, r |-> {}]
    /\ clock = 0
    /\ th = [t \in Threads |-> IdleThread]
    /\ last = NoReturn
    /\ accepted = <<>>
    /\ limit = n

Init == InitStore(MaxRecords)

\* time passes
Tick ==
    /\ clock < MaxClock
    /\ clock' = clock + 1
    /\ last' = NoReturn
    /\ UNCHANGED <<templates, versions, mu, th, accepted, limit>>

(***************************************************************************)
(* TemplateService.CreateTemplate                                          *)
(***************************************************************************)
\* the template CreateTemplate validates and stores
CreatedTemplate(in, id, now) ==
    [in EXCEPT !.TemplateID = id, !.CreatedAt = now, !.UpdatedAt = now, !.Version = 1]

\* a faulty InitialVersion: the entry is not marked current
InitialVersionNotCurrent(tpl, id, now) ==
    [VersionID |-> id, TemplateID |-> tpl.TemplateID, VersionNumber |-> tpl.Version,
     ChangeSummary |-> <<"initial version">>, JSONSchemaURL |-> tpl.JSONSchemaURL,
     CreatedBy |-> tpl.CreatedBy, CreatedAt |-> now, IsCurrent |-> FALSE]

\* the history entry CreateTemplate appends
InitialVersion(tpl, id, now) ==
    [VersionID |-> id, TemplateID |-> tpl.TemplateID, VersionNumber |-> tpl.Version,
     ChangeSummary |-> <<"initial version">>, JSONSchemaURL |-> tpl.JSONSchemaURL,
     CreatedBy |-> tpl.CreatedBy, CreatedAt |-> now, IsCurrent |-> TRUE]

\* newID, timestamps, Validate; then into repo.CreateTemplate
BeginCreateTemplate(t, wide) ==
    /\ th[t].pc = "idle"
    /\ Room(1)
    /\ \E in \in CreateInputs(wide) :
         LET tpl == CreatedTemplate(in, newID, clock)
             bad == ValidateTemplate(tpl)
         IN  IF bad # ""
             THEN /\ th' = th
                  /\ last' = Returned(t, "CreateTemplate", in, Plain(<<"validate template: ", bad>>))
                  /\ mu' = mu
             ELSE /\ CanLock
                  /\ mu' = Lock(t)
                  /\ th' = [th EXCEPT ![t] = [pc |-> "in", op |-> "CreateTemplate",
                               call |-> "CreateTemplate", arg |-> in,
                               loc |-> [NoLocals EXCEPT !.tpl = tpl, !.now = clock]]]
                  /\ last' = NoReturn
    /\ UNCHANGED <<templates, versions, clock, accepted, limit>>

BodyCreateTemplate(t) ==
    /\ At(t, "in", "CreateTemplate")
    /\ LET o == RepoCreateTemplate(templates, versions, th[t].loc.tpl)
       IN  /\ templates' = o.T
           /\ versions' = o.V
           /\ IF o.res.err # "ok" THEN Done(t, th[t].arg, o.res)
              ELSE Continue(t, "CreateVersion", th[t].arg, th[t].loc)
    /\ mu' = Unlock(t)
    /\ UNCHANGED clock

(***************************************************************************)
(* repo.CreateVersion as called by CreateTemplate, UpdateTemplate and the  *)
(* copy loop of DuplicateTemplate                                          *)
(***************************************************************************)
\* the history entry UpdateTemplate appends
UpdatedVersion(tpl, id, updatedBy, changeSummary) ==
    [VersionID |-> id, TemplateID |-> tpl.TemplateID, VersionNumber |-> tpl.Version,
     ChangeSummary |-> changeSummary, JSONSchemaURL |-> tpl.JSONSchemaURL,
     CreatedBy |-> updatedBy, CreatedAt |-> tpl.UpdatedAt, IsCurrent |-> TRUE]

\* the entry the copy loop of DuplicateTemplate makes of the source entry v
CopiedVersion(v, tpl, id) ==
    [v EXCEPT !.TemplateID = tpl.TemplateID,
              !.VersionID = id,
              !.VersionNumber = IF v.IsCurrent THEN tpl.Version ELSE @]

\* the entry the service call of thread t hands to repo.CreateVersion
NextVersion(t, id) ==
    CASE th[t].op = "CreateTemplate" ->
            InitialVersion(th[t].loc.tpl, id, th[t].loc.now)
      [] th[t].op = "UpdateTemplate" ->
            UpdatedVersion(th[t].loc.tpl, id, th[t].arg.updatedBy, th[t].arg.changeSummary)
      [] OTHER ->
            CopiedVersion(th[t].loc.versions[th[t].loc.i], th[t].loc.tpl, id)

\* the tenant the service call of thread t passes along
CallTenant(t) ==
    IF th[t].op = "CreateTemplate" THEN th[t].loc.tpl.TenantID ELSE th[t].arg.tenantID

AcquireCreateVersion(t) ==
    /\ At(t, "call", "CreateVersion")
    /\ CanLock
    /\ Room(1)
    /\ mu' = Lock(t)
    /\ th' = Enter(t, [th[t].loc EXCEPT !.version = NextVersion(t, newID)])
    /\ last' = NoReturn
    /\ UNCHANGED <<templates, versions, clock, accepted, limit>>

BodyCreateVersion(t) ==
    /\ At(t, "in", "CreateVersion")
    /\ LET o == RepoCreateVersion(templates, versions, CallTenant(t), th[t].loc.version)
       IN  /\ templates' = o.T
           /\ versions' = o.V
           /\ IF o.res.err # "ok" THEN Done(t, th[t].arg, o.res)
              ELSE IF th[t].op = "DuplicateTemplate" /\ th[t].loc.i < Len(th[t].loc.versions)
                   THEN Continue(t, "CreateVersion", th[t].arg,
                                 [th[t].loc EXCEPT !.i = @ + 1, !.version = NoVersion])
              ELSE Done(t, th[t].arg, Ok(IF th[t].op = "CreateVersion" THEN o.res.val
                                         ELSE th[t].loc.tpl))
    /\ mu' = Unlock(t)
    /\ UNCHANGED clock

(***************************************************************************)
(* Calls whose first repository call takes the lock shared, and calls      *)
(* whose first repository call takes it exclusive.                         *)
(***************************************************************************)
FirstCall(op) ==
    CASE op = "UpdateTemplate" -> "GetTemplate"
      [] op = "RestoreVersion" -> "RestoreVersion"
      [] op = "DeleteTemplate" -> "SoftDeleteTemplate"
      [] OTHER -> op

SharedOps(wide) == {"UpdateTemplate", "ListVersions"} \cup IF wide THEN {"GetTemplate"} ELSE {}
ExclusiveOps(wide) == {"RestoreVersion", "DuplicateTemplate"}

BeginShared(t, wide) ==
    /\ th[t].pc = "idle"
    /\ CanRLock
    /\ \E op \in SharedOps(wide) : th' = Start(t, op, FirstCall(op), NoLocals)
    /\ mu' = RLock(t)
    /\ last' = NoReturn
    /\ UNCHANGED <<templates, versions, clock, accepted, limit>>

BeginExclusive(t, wide) ==
    /\ th[t].pc = "idle"
    /\ CanLock
    /\ \E op \in ExclusiveOps(wide) : th' = Start(t, op, FirstCall(op), NoLocals)
    /\ mu' = Lock(t)
    /\ last' = NoReturn
    /\ UNCHANGED <<templates, versions, clock, accepted, limit>>

(***************************************************************************)
(* TemplateService.UpdateTemplate                                          *)
(***************************************************************************)
UpdateArg(tg, m) ==
    [tenantID |-> tg.tenantID, templateID |-> tg.templateID, mutate |-> m,
     updatedBy |-> "u2", changeSummary |-> <<"edit">>]

UpdateArgs(wide) ==
    {UpdateArg(tg, m) : tg \in OwnTargets, m \in Mutations(wide)}
    \cup {UpdateArg(tg, "schema") : tg \in ForeignTargets(wide)}

\* a faulty UpdatedTemplate: the version is not incremented
UpdatedTemplateSameVersion(tpl, arg, now) ==
    [Mutate(arg.mutate, tpl) EXCEPT !.UpdatedBy = arg.updatedBy,
                                    !.UpdatedAt = now]

\* the record UpdateTemplate persists, made of the loaded copy
UpdatedTemplate(tpl, arg, now) ==
    [Mutate(arg.mutate, tpl) EXCEPT !.Version = tpl.Version + 1,
                                    !.UpdatedBy = arg.updatedBy,
                                    !.UpdatedAt = now]

\* a faulty UpdateLoaded: the mutated copy is not validated
UpdateLoadedUnvalidated(t, arg, got) ==
    IF got.err # "ok" THEN Done(t, arg, got)
    ELSE IF got.val.DeletedAt # NoTime
         THEN Done(t, arg, Fail("InvalidInput", "template is deleted: templates: invalid input"))
    ELSE IF MutateErr(arg.mutate) # "" THEN Done(t, arg, Plain(MutateErr(arg.mutate)))
    ELSE Continue(t, "UpdateTemplate", arg,
                  [NoLocals EXCEPT !.tpl = UpdatedTemplate(got.val, arg, clock)])

\* a faulty UpdateLoaded: mutate is called before DeletedAt is tested
UpdateLoadedMutatesFirst(t, arg, got) ==
    IF got.err # "ok" THEN Done(t, arg, got)
    ELSE IF MutateErr(arg.mutate) # "" THEN Done(t, arg, Plain(MutateErr(arg.mutate)))
    ELSE IF got.val.DeletedAt # NoTime
         THEN Done(t, arg, Fail("InvalidInput", "template is deleted: templates: invalid input"))
    ELSE IF ValidateTemplate(UpdatedTemplate(got.val, arg, clock)) # ""
         THEN Done(t, arg, Plain(ValidateTemplate(UpdatedTemplate(got.val, arg, clock))))
    ELSE Continue(t, "UpdateTemplate", arg,
                  [NoLocals EXCEPT !.tpl = UpdatedTemplate(got.val, arg, clock)])

\* UpdateTemplate between repo.GetTemplate and repo.UpdateTemplate
UpdateLoaded(t, arg, got) ==
    IF got.err # "ok" THEN Done(t, arg, got)
    ELSE IF got.val.DeletedAt # NoTime
         THEN Done(t, arg, Fail("InvalidInput", "template is deleted: templates: invalid input"))
    ELSE IF MutateErr(arg.mutate) # "" THEN Done(t, arg, Plain(MutateErr(arg.mutate)))
    ELSE IF ValidateTemplate(UpdatedTemplate(got.val, arg, clock)) # ""
         THEN Done(t, arg, Plain(ValidateTemplate(UpdatedTemplate(got.val, arg, clock))))
    ELSE Continue(t, "UpdateTemplate", arg,
                  [NoLocals EXCEPT !.tpl = UpdatedTemplate(got.val, arg, clock)])

\* repo.GetTemplate, for TemplateService.GetTemplate and for UpdateTemplate
BodyGetTemplate(t, wide) ==
    /\ At(t, "in", "GetTemplate")
    /\ IF th[t].op = "UpdateTemplate"
       THEN \E arg \in UpdateArgs(wide) :
              UpdateLoaded(t, arg, RepoGetTemplate(templates, versions, arg.tenantID,
                                                   arg.templateID).res)
       ELSE \E arg \in Targets(wide) :
              Done(t, arg, RepoGetTemplate(templates, versions, arg.tenantID,
                                           arg.templateID).res)
    /\ mu' = RUnlock(t)
    /\ UNCHANGED <<templates, versions, clock>>

AcquireUpdateTemplate(t) ==
    /\ At(t, "call", "UpdateTemplate")
    /\ CanLock
    /\ mu' = Lock(t)
    /\ th' = Enter(t, th[t].loc)
    /\ last' = NoReturn
    /\ UNCHANGED <<templates, versions, clock, accepted, limit>>

BodyUpdateTemplate(t) ==
    /\ At(t, "in", "UpdateTemplate")
    /\ LET o == RepoUpdateTemplate(templates, versions, th[t].loc.tpl)
       IN  /\ templates' = o.T
           /\ versions' = o.V
           /\ IF o.res.err # "ok" THEN Done(t, th[t].arg, o.res)
              ELSE Continue(t, "CreateVersion", th[t].arg, th[t].loc)
    /\ mu' = Unlock(t)
    /\ UNCHANGED clock

(***************************************************************************)
(* TemplateService.RestoreVersion                                          *)
(***************************************************************************)
RestoreVersionArg(tg, n) ==
    [tenantID |-> tg.tenantID, templateID |-> tg.templateID, versionNumber |-> n]

\* the numbers of a history and one number (0) that is in none
Numbers(h) == {h[i].VersionNumber : i \in 1..Len(h)} \cup {0}

RestoreVersionArgs(wide) ==
    UNION {{RestoreVersionArg(tg, n) : n \in Numbers(VersionsOf(versions, tg.templateID))} :
             tg \in OwnTargets}
    \cup {RestoreVersionArg(tg, 1) : tg \in ForeignTargets(wide)}

BodyRestoreVersion(t, wide) ==
    /\ At(t, "in", "RestoreVersion")
    /\ \E arg \in RestoreVersionArgs(wide) :
         LET o == RepoRestoreVersion(templates, versions, arg.tenantID,
                                     arg.templateID, arg.versionNumber, clock)
         IN  /\ o.res.err = "ok" => Room(1)
             /\ templates' = o.T
             /\ versions' = o.V
             /\ Done(t, arg, o.res)
    /\ mu' = Unlock(t)
    /\ UNCHANGED clock

(***************************************************************************)
(* TemplateService.DuplicateTemplate                                       *)
(***************************************************************************)
DuplicateOpt(copy, name, user) ==
    [CreatedBy |-> user, UpdatedBy |-> user, CopyVersions |-> copy,
     NameOverride |-> name, DescriptionOverride |-> <<>>]

DuplicateArg(tg, opt) == [tenantID |-> tg.tenantID, templateID |-> tg.templateID, opt |-> opt]

DuplicateOpts(wide) ==
    {DuplicateOpt(FALSE, <<>>, "u2"), DuplicateOpt(TRUE, <<>>, "u2")}
    \cup IF wide
         THEN {DuplicateOpt(FALSE, <<"Warranty EU v2">>, "u2"), DuplicateOpt(FALSE, <<>>, "")}
         ELSE {}

DuplicateArgs(wide) ==
    {DuplicateArg(tg, opt) : tg \in OwnTargets, opt \in DuplicateOpts(wide)}
    \cup {DuplicateArg(tg, DuplicateOpt(FALSE, <<>>, "u2")) : tg \in ForeignTargets(wide)}

\* a faulty DuplicateClone: the clone keeps the source's usage counters
DuplicateCloneKeepsUsage(tpl, opt, id, now) ==
    [tpl EXCEPT !.TemplateID = id,
                !.CreatedAt = now,
                !.UpdatedAt = now,
                !.CreatedBy = opt.CreatedBy,
                !.UpdatedBy = opt.UpdatedBy,
                !.DeletedAt = NoTime,
                !.Version = 1,
                !.Name = IF opt.NameOverride # <<>> THEN opt.NameOverride
                         ELSE tpl.Name \o <<" Copy">>,
                !.Description = IF opt.DescriptionOverride # <<>>
                                THEN opt.DescriptionOverride ELSE @]

\* a faulty DuplicateClone: the clone keeps the source's version
DuplicateCloneKeepsVersion(tpl, opt, id, now) ==
    [tpl EXCEPT !.TemplateID = id,
                !.CreatedAt = now,
                !.UpdatedAt = now,
                !.CreatedBy = opt.CreatedBy,
                !.UpdatedBy = opt.UpdatedBy,
                !.DeletedAt = NoTime,
                !.DocumentsCount = 0,
                !.LastUsedAt = NoTime,
                !.Name = IF opt.NameOverride # <<>> THEN opt.NameOverride
                         ELSE tpl.Name \o <<" Copy">>,
                !.Description = IF opt.DescriptionOverride # <<>>
                                THEN opt.DescriptionOverride ELSE @]

\* the clone repo.DuplicateTemplate builds of tpl
DuplicateClone(tpl, opt, id, now) ==
    [tpl EXCEPT !.TemplateID = id,
                !.CreatedAt = now,
                !.UpdatedAt = now,
                !.CreatedBy = opt.CreatedBy,
                !.UpdatedBy = opt.UpdatedBy,
                !.DeletedAt = NoTime,
                !.DocumentsCount = 0,
                !.LastUsedAt = NoTime,
                !.Version = 1,
                !.Name = IF opt.NameOverride # <<>> THEN opt.NameOverride
                         ELSE tpl.Name \o <<" Copy">>,
                !.Description = IF opt.DescriptionOverride # <<>>
                                THEN opt.DescriptionOverride ELSE @]

\* the history entry repo.DuplicateTemplate appends for the clone
DuplicateVersion(clone, sourceID, opt, id, now) ==
    [VersionID |-> id, TemplateID |-> clone.TemplateID, VersionNumber |-> clone.Version,
     ChangeSummary |-> <<"duplicated from ", sourceID>>,
     JSONSchemaURL |-> clone.JSONSchemaURL, CreatedBy |-> opt.UpdatedBy,
     CreatedAt |-> now, IsCurrent |-> TRUE]

\* repo.DuplicateTemplate from taking the lock to the insertion of the clone
BodyDuplicateInsert(t, wide) ==
    /\ At(t, "in", "DuplicateTemplate")
    /\ \E arg \in DuplicateArgs(wide) :
         IF Missing(templates, arg.tenantID, arg.templateID)
         THEN /\ Done(t, arg, ErrNotFound)
              /\ mu' = Unlock(t)
              /\ templates' = templates
         ELSE /\ Room(2)
              /\ LET clone == DuplicateClone(templates[arg.templateID], arg.opt, newID, clock)
                 IN  IF ValidateTemplate(clone) # ""
                     THEN /\ Done(t, arg, Plain(ValidateTemplate(clone)))
                          /\ mu' = Unlock(t)
                          /\ templates' = templates
                     ELSE IF clone.TemplateID \in DOMAIN templates
                     THEN /\ Done(t, arg, ErrConflict)
                          /\ mu' = Unlock(t)
                          /\ templates' = templates
                     ELSE /\ templates' = Put(templates, clone.TemplateID, clone)
                          /\ th' = [th EXCEPT ![t].call = "DuplicateAppend", ![t].arg = arg,
                                              ![t].loc = [NoLocals EXCEPT
                                                  !.tpl = clone,
                                                  !.now = clock,
                                                  !.sourceLen =
                                                      Len(VersionsOf(versions, arg.templateID))]]
                          /\ last' = NoReturn
                          /\ accepted' = accepted
                          /\ limit' = limit
                          /\ mu' = mu
    /\ UNCHANGED <<versions, clock>>

\* repo.DuplicateTemplate from the insertion of the clone to its return
BodyDuplicateAppend(t) ==
    /\ At(t, "in", "DuplicateAppend")
    /\ LET clone == th[t].loc.tpl
           version == DuplicateVersion(clone, th[t].arg.templateID, th[t].arg.opt,
                                       newID, th[t].loc.now)
       IN  /\ versions' = Put(versions, clone.TemplateID,
                              Append(VersionsOf(versions, clone.TemplateID), version))
           /\ IF th[t].arg.opt.CopyVersions
              THEN Continue(t, "ListVersions", th[t].arg, th[t].loc)
              ELSE Done(t, th[t].arg, Ok(clone))
    /\ mu' = Unlock(t)
    /\ UNCHANGED <<templates, clock>>

AcquireListVersions(t) ==
    /\ At(t, "call", "ListVersions")
    /\ CanRLock
    /\ mu' = RLock(t)
    /\ th' = Enter(t, th[t].loc)
    /\ last' = NoReturn
    /\ UNCHANGED <<templates, versions, clock, accepted, limit>>

\* DuplicateTemplate once repo.ListVersions has returned the source's history
CopyLoop(t, got) ==
    IF got.err # "ok" THEN Done(t, th[t].arg, got)
    ELSE IF got.val = <<>> THEN Done(t, th[t].arg, Ok(th[t].loc.tpl))
    ELSE Continue(t, "CreateVersion", th[t].arg,
                  [th[t].loc EXCEPT !.versions = got.val, !.i = 1])

\* repo.ListVersions, for TemplateService.ListVersions and for DuplicateTemplate
BodyListVersions(t, wide) ==
    /\ At(t, "in", "ListVersions")
    /\ IF th[t].op = "DuplicateTemplate"
       THEN CopyLoop(t, RepoListVersions(templates, versions, th[t].arg.tenantID,
                                         th[t].arg.templateID).res)
       ELSE \E arg \in Targets(wide) :
              Done(t, arg, RepoListVersions(templates, versions, arg.tenantID,
                                            arg.templateID).res)
    /\ mu' = RUnlock(t)
    /\ UNCHANGED <<templates, versions, clock>>

(***************************************************************************)
(* The service calls that are one repository call (DeleteTemplate,         *)
(* RestoreTemplate, CompareVersions), ListTemplates (repo.ListTemplates,   *)
(* then repo.CountTemplates), and repo.CreateVersion called directly.      *)
(***************************************************************************)
\* the service calls whose first repository call takes the lock shared
Readers == {"UpdateTemplate", "GetTemplate", "ListVersions", "ListTemplates", "CompareVersions"}

BeginCall(t, op) ==
    /\ th[t].pc = "idle"
    /\ IF op \in Readers THEN CanRLock /\ mu' = RLock(t) ELSE CanLock /\ mu' = Lock(t)
    /\ th' = Start(t, op, FirstCall(op), NoLocals)
    /\ last' = NoReturn
    /\ UNCHANGED <<templates, versions, clock, accepted, limit>>

BodySoftDeleteTemplate(t, wide) ==
    /\ At(t, "in", "SoftDeleteTemplate")
    /\ \E arg \in Targets(wide) :
         LET o == RepoSoftDeleteTemplate(templates, versions, arg.tenantID,
                                         arg.templateID, clock)
         IN  /\ templates' = o.T
             /\ versions' = o.V
             /\ Done(t, arg, o.res)
    /\ mu' = Unlock(t)
    /\ UNCHANGED clock

BodyRestoreTemplate(t, wide) ==
    /\ At(t, "in", "RestoreTemplate")
    /\ \E arg \in Targets(wide) :
         LET o == RepoRestoreTemplate(templates, versions, arg.tenantID, arg.templateID)
         IN  /\ templates' = o.T
             /\ versions' = o.V
             /\ Done(t, arg, o.res)
    /\ mu' = Unlock(t)
    /\ UNCHANGED clock

CompareArg(tg, left, right) ==
    [tenantID |-> tg.tenantID, templateID |-> tg.templateID, left |-> left, right |-> right]

CompareArgs(wide) ==
    UNION {{CompareArg(tg, l, r) : l \in Numbers(VersionsOf(versions, tg.templateID)),
                                   r \in Numbers(VersionsOf(versions, tg.templateID))} :
             tg \in Targets(wide)}

BodyCompareVersions(t, wide) ==
    /\ At(t, "in", "CompareVersions")
    /\ \E arg \in CompareArgs(wide) :
         Done(t, arg, RepoCompareVersions(templates, versions, arg.tenantID,
                                          arg.templateID, arg.left, arg.right).res)
    /\ mu' = RUnlock(t)
    /\ UNCHANGED <<templates, versions, clock>>

Searches(wide) == {""} \cup IF wide THEN {"   ", "Copy"} ELSE {}
Limits(wide) == {0} \cup IF wide THEN {1} ELSE {}
Offsets(wide) == {0} \cup IF wide THEN {-1, 1} ELSE {}

ListOpts(wide) ==
    {ListOpt(tn, search, docType, deleted, lim, off) :
        tn \in Tenants, search \in Searches(wide),
        docType \in {""} \cup (IF wide THEN {"label"} ELSE {}),
        deleted \in BOOLEAN, lim \in Limits(wide), off \in Offsets(wide)}

ListArg(opt) == [tenantID |-> opt.TenantID, opt |-> opt]

BodyListTemplates(t, wide) ==
    /\ At(t, "in", "ListTemplates")
    /\ \E opt \in ListOpts(wide) :
         \E res \in RepoListTemplates(templates, opt) :
            IF res.err # "ok" THEN Done(t, ListArg(opt), res)
            ELSE Continue(t, "CountTemplates", ListArg(opt),
                          [th[t].loc EXCEPT !.items = res.val])
    /\ mu' = RUnlock(t)
    /\ UNCHANGED <<templates, versions, clock>>

AcquireCountTemplates(t) ==
    /\ At(t, "call", "CountTemplates")
    /\ CanRLock
    /\ mu' = RLock(t)
    /\ th' = Enter(t, th[t].loc)
    /\ last' = NoReturn
    /\ UNCHANGED <<templates, versions, clock, accepted, limit>>

BodyCountTemplates(t) ==
    /\ At(t, "in", "CountTemplates")
    /\ Done(t, th[t].arg,
            Ok([items |-> th[t].loc.items,
                count |-> RepoCountTemplates(templates, th[t].arg.opt).val]))
    /\ mu' = RUnlock(t)
    /\ UNCHANGED <<templates, versions, clock>>

\* an entry a caller of the Repository interface hands to repo.CreateVersion
DirectVersion(tg, id, now) ==
    [VersionID |-> id, TemplateID |-> tg.templateID, VersionNumber |-> 1,
     ChangeSummary |-> <<"direct">>, JSONSchemaURL |-> "s3://schemas/v2.json",
     CreatedBy |-> "u1", CreatedAt |-> now, IsCurrent |-> TRUE]

BeginRepoCreateVersion(t, wide) ==
    /\ th[t].pc = "idle"
    /\ CanLock
    /\ Room(1)
    /\ \E tg \in Targets(wide) :
         th' = [th EXCEPT ![t] =
                  [pc |-> "in", op |-> "CreateVersion", call |-> "CreateVersion",
                   arg |-> tg,
                   loc |-> [NoLocals EXCEPT !.version = DirectVersion(tg, newID, clock)]]]
    /\ mu' = Lock(t)
    /\ last' = NoReturn
    /\ UNCHANGED <<templates, versions, clock, accepted, limit>>

\* the steps of thread t
Step(t, wide) ==
    \/ BeginCreateTemplate(t, wide)
    \/ BodyCreateTemplate(t)
    \/ AcquireCreateVersion(t)
    \/ BodyCreateVersion(t)
    \/ BeginShared(t, wide)
    \/ BeginExclusive(t, wide)
    \/ BodyGetTemplate(t, wide)
    \/ AcquireUpdateTemplate(t)
    \/ BodyUpdateTemplate(t)
    \/ BodyRestoreVersion(t, wide)
    \/ BodyDuplicateInsert(t, wide)
    \/ BodyDuplicateAppend(t)
    \/ AcquireListVersions(t)
    \/ BodyListVersions(t, wide)

(***************************************************************************)
(* Spec: the threads call the service concurrently; every repository call  *)
(* is a critical section of the lock.  The clock stands still.             *)
(***************************************************************************)
Next == \E t \in Threads : Step(t, FALSE)

Spec == Init /\ [][Next]_vars

(***************************************************************************)
(* SpecSeq: one caller makes its service calls one after another, and      *)
(* time passes.                                                            *)
(***************************************************************************)
Caller == "a"

NextSeq == Tick \/ Step(Caller, TRUE)

SpecSeq == Init /\ [][NextSeq]_vars

(***************************************************************************)
(* SpecApi: one caller makes the calls of the service on single templates, *)
(* and calls repo.CreateVersion directly, one call after another, for      *)
(* templates of two tenants and with failing inputs of every class.  The   *)
(* clock stands still.                                                     *)
(***************************************************************************)
ApiCalls == {"DeleteTemplate", "RestoreTemplate", "CompareVersions"}

NextApi ==
    \/ BeginCreateTemplate(Caller, TRUE)
    \/ BodyCreateTemplate(Caller)
    \/ AcquireCreateVersion(Caller)
    \/ BodyCreateVersion(Caller)
    \/ BeginShared(Caller, TRUE)
    \/ BeginExclusive(Caller, TRUE)
    \/ \E op \in ApiCalls : BeginCall(Caller, op)
    \/ BeginRepoCreateVersion(Caller, TRUE)
    \/ BodyGetTemplate(Caller, TRUE)
    \/ AcquireUpdateTemplate(Caller)
    \/ BodyUpdateTemplate(Caller)
    \/ BodyRestoreVersion(Caller, TRUE)
    \/ BodyDuplicateInsert(Caller, TRUE)
    \/ BodyDuplicateAppend(Caller)
    \/ AcquireListVersions(Caller)
    \/ BodyListVersions(Caller, TRUE)
    \/ BodySoftDeleteTemplate(Caller, TRUE)
    \/ BodyRestoreTemplate(Caller, TRUE)
    \/ BodyCompareVersions(Caller, TRUE)

SpecApi == Init /\ [][NextApi]_vars

(***************************************************************************)
(* SpecList: one caller creates, duplicates, deletes and restores          *)
(* templates of two tenants and lists them with every combination of the   *)
(* listing options.  The clock stands still.                               *)
(***************************************************************************)
ListCalls == {"DeleteTemplate", "RestoreTemplate", "ListTemplates"}

NextList ==
    \/ BeginCreateTemplate(Caller, TRUE)
    \/ BodyCreateTemplate(Caller)
    \/ AcquireCreateVersion(Caller)
    \/ BodyCreateVersion(Caller)
    \/ BeginExclusive(Caller, TRUE) /\ th'[Caller].op = "DuplicateTemplate"
    \/ \E op \in ListCalls : BeginCall(Caller, op)
    \/ BodyDuplicateInsert(Caller, TRUE)
    \/ BodyDuplicateAppend(Caller)
    \/ AcquireListVersions(Caller)
    \/ BodyListVersions(Caller, TRUE)
    \/ BodySoftDeleteTemplate(Caller, TRUE)
    \/ BodyRestoreTemplate(Caller, TRUE)
    \/ BodyListTemplates(Caller, TRUE)
    \/ AcquireCountTemplates(Caller)
    \/ BodyCountTemplates(Caller)

SpecList == Init /\ [][NextList]_vars

(***************************************************************************)
(* SpecLock: the threads make every call of the service concurrently, and  *)
(* call repo.CreateVersion directly, on stored templates and on one that   *)
(* is not stored.  The store has room for one template and its history.    *)
(***************************************************************************)
MaxLockRecords == 3

LockCalls == {"DeleteTemplate", "RestoreTemplate", "CompareVersions", "ListTemplates"}

StepLock(t) ==
    \/ Step(t, FALSE)
    \/ \E op \in LockCalls : BeginCall(t, op)
    \/ BeginRepoCreateVersion(t, FALSE)
    \/ BodySoftDeleteTemplate(t, FALSE)
    \/ BodyRestoreTemplate(t, FALSE)
    \/ BodyCompareVersions(t, FALSE)
    \/ BodyListTemplates(t, FALSE)
    \/ AcquireCountTemplates(t)
    \/ BodyCountTemplates(t)

NextLock == \E t \in Threads : StepLock(t)

SpecLock == InitStore(MaxLockRecords) /\ [][NextLock]_vars

(***************************************************************************)
(* SpecLive: the threads make every call of the service concurrently       *)
(* under fair scheduling.  The goroutine inside a repository call runs on  *)
(* (weak fairness of its body), and a goroutine blocked in Lock or RLock   *)
(* gets the lock once it is free again and again (strong fairness of the   *)
(* acquisition: sync.Mutex hands the lock to a starving waiter, and a      *)
(* pending writer of sync.RWMutex holds back new readers).  No caller has  *)
(* to start a call.  Calls start only while at most MaxLiveStart records   *)
(* are stored, and the store has room for all that the calls started so    *)
(* can add, so that no call in flight waits for room.                      *)
(***************************************************************************)
MaxLiveStart == 2

LiveRecords == 4 * MaxLiveStart + 4

\* a call may start
MayStart == Stored <= MaxLiveStart

\* thread t starts a call and enters its first repository call
Begins(t) ==
    \/ MayStart /\ BeginCreateTemplate(t, FALSE)
    \/ MayStart /\ BeginShared(t, FALSE)
    \/ MayStart /\ BeginExclusive(t, FALSE)
    \/ MayStart /\ \E op \in LockCalls : BeginCall(t, op)
    \/ MayStart /\ BeginRepoCreateVersion(t, FALSE)

\* thread t, between two repository calls, takes the lock of the next one
Acquires(t) ==
    \/ AcquireCreateVersion(t)
    \/ AcquireUpdateTemplate(t)
    \/ AcquireListVersions(t)
    \/ AcquireCountTemplates(t)

\* thread t runs the body of a repository call and releases the lock
Bodies(t) ==
    \/ BodyCreateTemplate(t)
    \/ BodyCreateVersion(t)
    \/ BodyGetTemplate(t, FALSE)
    \/ BodyUpdateTemplate(t)
    \/ BodyRestoreVersion(t, FALSE)
    \/ BodyDuplicateInsert(t, FALSE)
    \/ BodyDuplicateAppend(t)
    \/ BodyListVersions(t, FALSE)
    \/ BodySoftDeleteTemplate(t, FALSE)
    \/ BodyRestoreTemplate(t, FALSE)
    \/ BodyCompareVersions(t, FALSE)
    \/ BodyListTemplates(t, FALSE)
    \/ BodyCountTemplates(t)

NextLive == \E t \in Threads : Begins(t) \/ Acquires(t) \/ Bodies(t)

\* what the scheduler sees: the lock and each thread's position
sched == <<mu, [u \in Threads |-> <<th[u].pc, th[u].call>>]>>

FairLive == \A t \in Threads : WF_sched(Bodies(t)) /\ SF_sched(Acquires(t))

SpecLive == InitStore(LiveRecords) /\ [][NextLive]_vars /\ FairLive

(***************************************************************************)
(* SpecPage: time passes while one caller creates templates of two tenants *)
(* and lists them page by page, so that the templates listed differ in     *)
(* UpdatedAt.  The store has room for three templates.                     *)
(***************************************************************************)
MaxPageRecords == 6

NextPage ==
    \/ Tick
    \/ BeginCreateTemplate(Caller, TRUE)
    \/ BodyCreateTemplate(Caller)
    \/ AcquireCreateVersion(Caller)
    \/ BodyCreateVersion(Caller)
    \/ BeginCall(Caller, "ListTemplates")
    \/ BodyListTemplates(Caller, TRUE)
    \/ AcquireCountTemplates(Caller)
    \/ BodyCountTemplates(Caller)

SpecPage == InitStore(MaxPageRecords) /\ [][NextPage]_vars

(***************************************************************************)
(* SpecDup: caller a creates and duplicates templates while caller b       *)
(* updates them and restores versions, in a repository large enough for a  *)
(* source with two entries and its clone with copied history.              *)
(***************************************************************************)
MaxDupRecords == 7

Duplicator == "a"

\* the service calls thread t makes under SpecDup
DupCalls(t) ==
    IF t = Duplicator THEN {"DuplicateTemplate"} ELSE {"UpdateTemplate", "RestoreVersion"}

StepDup(t) ==
    \/ BeginCreateTemplate(t, FALSE) /\ t = Duplicator
    \/ BodyCreateTemplate(t)
    \/ AcquireCreateVersion(t)
    \/ BodyCreateVersion(t)
    \/ BeginShared(t, FALSE) /\ th'[t].op \in DupCalls(t)
    \/ BeginExclusive(t, FALSE) /\ th'[t].op \in DupCalls(t)
    \/ BodyGetTemplate(t, FALSE)
    \/ AcquireUpdateTemplate(t)
    \/ BodyUpdateTemplate(t)
    \/ BodyRestoreVersion(t, FALSE)
    \/ BodyDuplicateInsert(t, FALSE)
    \/ BodyDuplicateAppend(t)
    \/ AcquireListVersions(t)
    \/ BodyListVersions(t, FALSE)

NextDup == \E t \in Threads : StepDup(t)

SpecDup == InitStore(MaxDupRecords) /\ [][NextDup]_vars

(***************************************************************************)
(* Properties.                                                             *)
(***************************************************************************)
Currents(h) == {i \in 1..Len(h) : h[i].IsCurrent}

Quiescent == \A t \in Threads : th[t].pc = "idle"

ReturnedOk(op) == last.op = op /\ last.res.err = "ok"

\* C1: in every reachable state, each template's history holds at most one
\* entry whose IsCurrent is true (also right after a RestoreVersion).
C1_AtMostOneCurrent ==
    \A k \in DOMAIN versions : Cardinality(Currents(versions[k])) <= 1

\* C2: once TemplateService.CreateTemplate has returned success for a valid
\* input, the stored template has Version 1 and its history is exactly one
\* entry, which is current and has VersionNumber 1.
C2_CreateStoresVersionOne ==
    ReturnedOk("CreateTemplate") =>
        LET id == last.res.val.TemplateID
        IN  /\ id \in DOMAIN templates
            /\ templates[id].Version = 1
            /\ Len(VersionsOf(versions, id)) = 1
            /\ versions[id][1].IsCurrent
            /\ versions[id][1].VersionNumber = 1

\* a CreateTemplate call has just returned the template it stored
C2_Witness ==
    /\ ReturnedOk("CreateTemplate")
    /\ last.res.val.TemplateID \in DOMAIN templates
    /\ last.arg = ValidInput

\* C3: a template made by CreateTemplate and then changed only by N accepted
\* UpdateTemplate calls, run one after another, has Version 1 + N and exactly
\* one current history entry, whose VersionNumber is that Version.
C3_UpdatesCountVersions ==
    \A id \in DOMAIN templates :
        (/\ th[Caller].pc = "idle"
         /\ AcceptedOf(id).create = 1
         /\ AcceptedOf(id).rv = 0)
        => /\ templates[id].Version = 1 + AcceptedOf(id).up
           /\ Cardinality(Currents(versions[id])) = 1
           /\ \A i \in Currents(versions[id]) :
                versions[id][i].VersionNumber = templates[id].Version

\* a created template after two accepted updates
C3_Witness ==
    \E id \in DOMAIN templates :
        /\ th[Caller].pc = "idle"
        /\ AcceptedOf(id).create = 1
        /\ AcceptedOf(id).rv = 0
        /\ AcceptedOf(id).up = 2
        /\ templates[id].Version = 3

\* C4: for every interleaving of UpdateTemplate and RestoreVersion calls on
\* one template, once they have all returned, the template's Version is its
\* initial Version (1) plus the number of calls that returned success.
C4_VersionCountsAccepted ==
    Quiescent =>
        \A id \in DOMAIN templates :
            templates[id].Version = 1 + AcceptedOf(id).up + AcceptedOf(id).rv

\* C5: across every interleaving of mutating calls, no step lowers the
\* stored Version of a template.
C5_VersionNeverDecreases ==
    [][\A id \in DOMAIN templates : templates'[id].Version >= templates[id].Version]_vars

\* C6: a RestoreVersion that returns success has raised the template's
\* Version by exactly 1, whatever existing number it restored; one that
\* fails returns Not-Found and has changed neither templates nor histories.
C6_RestoreVersionBumpsByOne ==
    [][last'.op = "RestoreVersion" =>
         IF last'.res.err = "ok"
         THEN templates'[last'.arg.templateID].Version
                = templates[last'.arg.templateID].Version + 1
         ELSE /\ last'.res = ErrNotFound
              /\ templates' = templates
              /\ versions' = versions]_vars

\* a RestoreVersion has returned success for a number below the version the
\* template had
C6_Witness ==
    /\ ReturnedOk("RestoreVersion")
    /\ last.arg.versionNumber + 1 < templates[last.arg.templateID].Version

\* C7: after a successful RestoreVersion(v) the live template's schema URL
\* is that of the entry numbered v, and the history has grown by one entry:
\* numbered with the template's new Version, carrying entry v's schema URL,
\* created at the template's new UpdatedAt, and current.
C7_RestoreVersionAppends ==
    [][(last'.op = "RestoreVersion" /\ last'.res.err = "ok") =>
         LET id == last'.arg.templateID
             h == versions[id]
             g == versions'[id]
             e == g[Len(g)]
         IN  /\ Len(g) = Len(h) + 1
             /\ \E i \in 1..Len(h) :
                  /\ h[i].VersionNumber = last'.arg.versionNumber
                  /\ templates'[id].JSONSchemaURL = h[i].JSONSchemaURL
                  /\ e.JSONSchemaURL = h[i].JSONSchemaURL
             /\ e.VersionNumber = templates'[id].Version
             /\ e.CreatedAt = templates'[id].UpdatedAt
             /\ e.IsCurrent]_vars

\* a RestoreVersion has brought back an older schema at a later time
C7_Witness ==
    /\ ReturnedOk("RestoreVersion")
    /\ LET h == versions[last.arg.templateID]
           i == FirstWithNumber(h, last.arg.versionNumber)
       IN  /\ Len(h) >= 3
           /\ i # 0
           /\ h[Len(h)].JSONSchemaURL # h[Len(h) - 1].JSONSchemaURL
           /\ h[Len(h)].CreatedAt > h[i].CreatedAt

\* C8: the entry a successful RestoreVersion appends has a VersionID that no
\* earlier entry of the history has.
C8_RestoredEntryHasFreshID ==
    ReturnedOk("RestoreVersion") =>
        LET h == versions[last.arg.templateID]
        IN  \A i \in 1..(Len(h) - 1) : h[i].VersionID # h[Len(h)].VersionID

\* the clone thread t has stored while its history is still empty
StoredWithoutHistory(t) ==
    IF th[t].pc = "in" /\ th[t].call = "DuplicateAppend"
    THEN {th[t].loc.tpl.TemplateID}
    ELSE {}

\* C9: the repository's DuplicateTemplate is atomic to readers: while a
\* clone is stored and its history is still empty no reader holds the lock
\* and no reader is returned that clone's history, and no history exists for
\* an identifier that is not in the template map.
C9_DuplicateAtomicToReaders ==
    /\ \A t \in Threads :
         \A id \in StoredWithoutHistory(t) :
            /\ mu.r = {}
            /\ ~(last.op = "ListVersions" /\ last.arg.templateID = id)
    /\ \A k \in DOMAIN versions : versions[k] # <<>> => k \in DOMAIN templates

\* a reader has been returned the history of a clone whose DuplicateTemplate
\* call is still in flight
C9_Witness ==
    /\ ReturnedOk("ListVersions")
    /\ \E t \in Threads :
         /\ th[t].op = "DuplicateTemplate"
         /\ th[t].loc.tpl.TemplateID = last.arg.templateID
    /\ Len(last.res.val) = 1

\* C10: after a DuplicateTemplate with CopyVersions false has returned
\* success, the clone's history is exactly one entry: its summary is
\* "duplicated from <sourceID>", its VersionNumber is 1 and it is current.
C10_DuplicateSyntheticEntry ==
    (ReturnedOk("DuplicateTemplate") /\ ~last.arg.opt.CopyVersions) =>
        LET h == VersionsOf(versions, last.res.val.TemplateID)
        IN  /\ Len(h) = 1
            /\ h[1].ChangeSummary = <<"duplicated from ", last.arg.templateID>>
            /\ h[1].VersionNumber = 1
            /\ h[1].IsCurrent

\* a template at version 2 has been duplicated without its history
C10_Witness ==
    /\ ReturnedOk("DuplicateTemplate")
    /\ ~last.arg.opt.CopyVersions
    /\ templates[last.arg.templateID].Version = 2
    /\ last.res.val.TemplateID \in DOMAIN versions

\* C11: a successful DuplicateTemplate with CopyVersions copies exactly as
\* many entries as the source's history held when the call was made (also
\* when updates of the source interleave), and every copy in the clone's
\* history keeps its source number, except copies of current entries, which
\* get the clone's Version.
C11_CopiesHistoryAtCall ==
    [][(/\ last'.op = "DuplicateTemplate"
        /\ last'.res.err = "ok"
        /\ last'.arg.opt.CopyVersions) =>
         LET copied == th[last'.t].loc.versions
             clone == last'.res.val
             g == versions'[clone.TemplateID]
             k == Len(g) - Len(copied)
         IN  /\ Len(copied) = th[last'.t].loc.sourceLen
             /\ \A i \in 1..Len(copied) :
                  g[k + i].VersionNumber =
                      IF copied[i].IsCurrent THEN clone.Version
                      ELSE copied[i].VersionNumber]_vars

\* C12: in every reachable state the version numbers within one template's
\* history are pairwise distinct (so that they can correspond one to one
\* with the values the template's Version has held).
C12_NumbersDistinct ==
    \A k \in DOMAIN versions :
        \A i, j \in 1..Len(versions[k]) :
            i # j => versions[k][i].VersionNumber # versions[k][j].VersionNumber

\* an existing entry after a step: the same fields, IsCurrent possibly cleared
Superseded(old, new) ==
    /\ [new EXCEPT !.IsCurrent = old.IsCurrent] = old
    /\ new.IsCurrent => old.IsCurrent

\* C13: history is append-only: across every step, each template's history
\* keeps its earlier entries in place and in order, with every field
\* unchanged except that IsCurrent may go from true to false.
C13_HistoryAppendOnly ==
    [][\A k \in DOMAIN versions :
         /\ k \in DOMAIN versions'
         /\ Len(versions'[k]) >= Len(versions[k])
         /\ \A i \in 1..Len(versions[k]) : Superseded(versions[k][i], versions'[k][i])]_vars

\* a history whose first entry has been superseded and that RestoreVersion
\* has extended
C13_Witness ==
    /\ ReturnedOk("RestoreVersion")
    /\ Len(versions[last.arg.templateID]) >= 3
    /\ ~versions[last.arg.templateID][1].IsCurrent

\* C14: every successful repo.CreateVersion ends with exactly one current
\* entry in that template's history, the entry just appended, whatever
\* IsCurrent the caller supplied.
C14_AppendLeavesOneCurrent ==
    [][\A t \in Threads :
         (At(t, "in", "CreateVersion") /\ versions' # versions) =>
             LET g == versions'[th[t].loc.version.TemplateID]
             IN  Currents(g) = {Len(g)}]_vars

\* C15: in every reachable state each template's history, in the insertion
\* order ListVersions returns it in, is non-decreasing by version number.
C15_HistoryOrdered ==
    /\ \A k \in DOMAIN versions :
         \A i \in 1..(Len(versions[k]) - 1) :
            versions[k][i].VersionNumber <= versions[k][i + 1].VersionNumber
    /\ ReturnedOk("ListVersions") =>
         \A i \in 1..(Len(last.res.val) - 1) :
            last.res.val[i].VersionNumber <= last.res.val[i + 1].VersionNumber

(***************************************************************************)
(* C16: ListTemplates and CountTemplates called with a tenant never return *)
(* or count a template of another tenant, whatever the search, document    *)
(* type, include_deleted, limit and offset, and whatever the other tenants *)
(* have stored: every returned item belongs to the tenant of the call, and *)
(* the count is the number of that tenant's templates passing the filters. *)
(***************************************************************************)
OwnedBy(tenant) == {id \in DOMAIN templates : templates[id].TenantID = tenant}

C16_ListingTenantIsolated ==
    ReturnedOk("ListTemplates") =>
        LET opt == last.arg.opt
            page == last.res.val
        IN  /\ \A i \in 1..Len(page.items) : page.items[i].TenantID = opt.TenantID
            /\ \A i \in 1..Len(page.items) : page.items[i].TemplateID \in OwnedBy(opt.TenantID)
            /\ page.count <= Cardinality(OwnedBy(opt.TenantID))
            /\ page.count = Cardinality({id \in OwnedBy(opt.TenantID) :
                                            Listed(templates[id], opt)})

\* a listing that returned and counted a template while another tenant had
\* a live template that passes every other filter of the call
C16_Witness ==
    /\ ReturnedOk("ListTemplates")
    /\ Len(last.res.val.items) >= 1
    /\ last.res.val.count >= 1
    /\ \E id \in DOMAIN templates :
          /\ templates[id].TenantID # last.arg.opt.TenantID
          /\ templates[id].DeletedAt = NoTime
          /\ last.arg.opt.DocumentType = ""
          /\ NormalizedSearch(last.arg.opt.Search) = ""

(***************************************************************************)
(* C17: every operation addressed to a stored template under a tenant that *)
(* does not own it (GetTemplate, UpdateTemplate, SoftDeleteTemplate,       *)
(* RestoreTemplate, DuplicateTemplate, ListVersions, CreateVersion,        *)
(* RestoreVersion, CompareVersions) fails with Not-Found, as it does for   *)
(* an identifier that is not stored, and leaves the template map and every *)
(* history unchanged.  repo.UpdateTemplate is also reached with a record   *)
(* whose tenant the caller's mutation has changed.                         *)
(***************************************************************************)
TargetedOps ==
    {"GetTemplate", "UpdateTemplate", "DeleteTemplate", "RestoreTemplate",
     "DuplicateTemplate", "ListVersions", "CreateVersion", "RestoreVersion",
     "CompareVersions"}

\* the call addresses a stored template under a tenant that does not own it
Foreign(arg) ==
    /\ arg.templateID \in DOMAIN templates
    /\ templates[arg.templateID].TenantID # arg.tenantID

\* the call addresses an identifier that is not stored
Absent(arg) == arg.templateID \notin DOMAIN templates

\* the call that returns in this step addresses a template by (tenant, id)
ReturnsTargeted ==
    /\ last'.t \in Threads
    /\ last'.op \in TargetedOps
    /\ "templateID" \in DOMAIN last'.arg

C17_CrossTenantNotFound ==
    [][/\ (ReturnsTargeted /\ (Foreign(last'.arg) \/ Absent(last'.arg)))
            => /\ last'.res.err = ErrNotFound.err
               /\ templates' = templates
               /\ versions' = versions
       /\ \A t \in Threads :
            (At(t, "in", "UpdateTemplate") /\ th'[t].pc # "in"
             /\ th[t].loc.tpl.TenantID # templates[th[t].loc.tpl.TemplateID].TenantID)
            => /\ last'.res.err = ErrNotFound.err
               /\ templates' = templates
               /\ versions' = versions]_vars

\* RestoreVersion of a number the history holds, addressed under the other
\* tenant, has returned Not-Found
C17_Witness ==
    /\ last.op = "RestoreVersion"
    /\ last.res.err = ErrNotFound.err
    /\ Foreign(last.arg)
    /\ \E i \in 1..Len(VersionsOf(versions, last.arg.templateID)) :
          versions[last.arg.templateID][i].VersionNumber = last.arg.versionNumber

(***************************************************************************)
(* C18: after SoftDeleteTemplate succeeds on a template, ListTemplates and *)
(* CountTemplates with include_deleted = false leave it out and with       *)
(* include_deleted = true still hold it; after RestoreTemplate succeeds on *)
(* it the default listing holds it again, every field but DeletedAt as it  *)
(* was.  Both calls change DeletedAt alone, and no history.                *)
(***************************************************************************)
ItemIDs(items) == {items[i].TemplateID : i \in 1..Len(items)}

\* the listing of a tenant with no filter and no paging
Unfiltered(tenant, deleted) == ListOpt(tenant, "", "", deleted, 0, 0)

\* a listing that has returned agrees with the deletion marks of the store
ListingHonoursDeleted ==
    ReturnedOk("ListTemplates") =>
        LET opt == last.arg.opt
            page == last.res.val
            live == {id \in OwnedBy(opt.TenantID) : templates[id].DeletedAt = NoTime}
        IN  /\ ~opt.IncludeDeleted =>
                 /\ ItemIDs(page.items) \subseteq live
                 /\ page.count = Cardinality({id \in live : Listed(templates[id], opt)})
            /\ opt = Unfiltered(opt.TenantID, FALSE) =>
                 /\ ItemIDs(page.items) = live
                 /\ page.count = Cardinality(live)
            /\ opt = Unfiltered(opt.TenantID, TRUE) =>
                 /\ ItemIDs(page.items) = OwnedBy(opt.TenantID)
                 /\ page.count = Cardinality(OwnedBy(opt.TenantID))
            /\ \A i \in 1..Len(page.items) :
                  page.items[i] = templates[page.items[i].TemplateID]

\* what the listings of the store T say about template id of the tenant
LeftOut(T, tenant, id) ==
    \A opt \in {o \in ListOpts(TRUE) : o.TenantID = tenant /\ ~o.IncludeDeleted} :
        /\ id \notin Matching(T, opt)
        /\ \A res \in RepoListTemplates(T, opt) :
              res.err = "ok" => id \notin ItemIDs(res.val)

Held(T, tenant, id, deleted) ==
    /\ id \in Matching(T, Unfiltered(tenant, deleted))
    /\ \A res \in RepoListTemplates(T, Unfiltered(tenant, deleted)) :
          /\ res.err = "ok"
          /\ \E i \in 1..Len(res.val) : res.val[i] = T[id]

C18_DeleteHidesRestoreShows ==
    [][/\ (last'.op = "DeleteTemplate" /\ last'.res.err = "ok") =>
            LET id == last'.arg.templateID
            IN  /\ templates' = [templates EXCEPT ![id].DeletedAt = clock]
                /\ templates'[id].DeletedAt # NoTime
                /\ versions' = versions
                /\ LeftOut(templates', last'.arg.tenantID, id)
                /\ Held(templates', last'.arg.tenantID, id, TRUE)
       /\ (last'.op = "RestoreTemplate" /\ last'.res.err = "ok") =>
            LET id == last'.arg.templateID
            IN  /\ templates' = [templates EXCEPT ![id].DeletedAt = NoTime]
                /\ versions' = versions
                /\ last'.res.val = templates'[id]
                /\ Held(templates', last'.arg.tenantID, id, FALSE)
       /\ ListingHonoursDeleted']_vars

\* a default listing has returned a template of its tenant and left out a
\* deleted one, which RestoreTemplate can bring back
C18_Witness ==
    /\ ReturnedOk("ListTemplates")
    /\ last.arg.opt = Unfiltered(last.arg.opt.TenantID, FALSE)
    /\ Len(last.res.val.items) >= 1
    /\ \E id \in OwnedBy(last.arg.opt.TenantID) :
          /\ templates[id].DeletedAt # NoTime
          /\ id \notin ItemIDs(last.res.val.items)

(***************************************************************************)
(* C19: while a template is soft-deleted no call of the service but        *)
(* RestoreTemplate changes its record or its history: UpdateTemplate,      *)
(* RestoreVersion and DuplicateTemplate addressed to it by its tenant are  *)
(* rejected, and its version, schema URL and history stay as they are.     *)
(***************************************************************************)
RejectedWhenDeleted == {"UpdateTemplate", "RestoreVersion", "DuplicateTemplate"}

\* the step belongs to a call of the service, not to a direct repository call
ServiceStep == \A t \in Threads : th[t].op # "CreateVersion"

C19_DeletedIsFrozen ==
    [][ServiceStep =>
         \A id \in DOMAIN templates :
            templates[id].DeletedAt # NoTime =>
               /\ templates'[id].Version = templates[id].Version
               /\ templates'[id].JSONSchemaURL = templates[id].JSONSchemaURL
               /\ VersionsOf(versions', id) = VersionsOf(versions, id)
               /\ (/\ last'.op \in RejectedWhenDeleted
                   /\ last'.arg.templateID = id
                   /\ last'.arg.tenantID = templates[id].TenantID)
                  => last'.res.err # "ok"]_vars

(***************************************************************************)
(* C20: Service.UpdateTemplate on a template that is soft-deleted when it  *)
(* is loaded returns an error of kind Invalid-Input, does not call the     *)
(* caller's mutation (a mutation that would fail or change the record has  *)
(* no effect on the outcome), and leaves the record and its history        *)
(* unchanged.                                                              *)
(***************************************************************************)
\* the arguments of the UpdateTemplate of thread t after its step
UpdateArgAfter(t) == IF last'.t = t THEN last'.arg ELSE th'[t].arg

\* thread t runs the repo.GetTemplate of an UpdateTemplate in this step
LoadsForUpdate(t) ==
    /\ At(t, "in", "GetTemplate")
    /\ th[t].op = "UpdateTemplate"
    /\ th'[t] # th[t]

C20_UpdateDeletedInvalidInput ==
    [][\A t \in Threads :
         (/\ LoadsForUpdate(t)
          /\ ~Missing(templates, UpdateArgAfter(t).tenantID, UpdateArgAfter(t).templateID)
          /\ templates[UpdateArgAfter(t).templateID].DeletedAt # NoTime)
         => /\ last'.t = t
            /\ last'.op = "UpdateTemplate"
            /\ last'.res.err = "InvalidInput"
            /\ th'[t].pc = "idle"
            /\ templates' = templates
            /\ versions' = versions]_vars

\* UpdateTemplate with a mutation that returns an error was addressed to a
\* soft-deleted template and returned Invalid-Input
C20_Witness ==
    /\ last.op = "UpdateTemplate"
    /\ last.arg.mutate = "fail"
    /\ last.res.err = "InvalidInput"
    /\ templates[last.arg.templateID].DeletedAt # NoTime
    /\ VersionsOf(versions, last.arg.templateID) # <<>>

(***************************************************************************)
(* C21: CompareVersions returns the history entries numbered left and      *)
(* right whenever the template is the tenant's and both numbers occur in   *)
(* its history, also when left = right, and returns Not-Found exactly when *)
(* the template or one of the numbers is missing.                          *)
(***************************************************************************)
HasNumber(h, n) == \E i \in 1..Len(h) : h[i].VersionNumber = n

C21_CompareReturnsBoth ==
    (last.op = "CompareVersions" /\ last.t \in Threads) =>
        LET arg == last.arg
            h == VersionsOf(versions, arg.templateID)
            found == /\ ~Foreign(arg) /\ ~Absent(arg)
                     /\ HasNumber(h, arg.left) /\ HasNumber(h, arg.right)
        IN  /\ found => /\ last.res.err = "ok"
                        /\ last.res.val.Left.VersionNumber = arg.left
                        /\ last.res.val.Right.VersionNumber = arg.right
            /\ ~found => last.res.err = ErrNotFound.err

(***************************************************************************)
(* C22: every validation failure raised during CreateTemplate,             *)
(* UpdateTemplate, DuplicateTemplate or CreateVersion reaches the caller   *)
(* as an error of kind Invalid-Input.  These calls fail with Not-Found,    *)
(* with Conflict, with the error the caller's own mutation returned, or on *)
(* a validation rule: so every failure that is not the mutation's error    *)
(* carries one of the three kinds.                                         *)
(***************************************************************************)
ValidatingOps == {"CreateTemplate", "UpdateTemplate", "DuplicateTemplate", "CreateVersion"}

\* the call returned the error of the caller's mutation
MutationFailed ==
    /\ last.op = "UpdateTemplate"
    /\ MutateErr(last.arg.mutate) # ""
    /\ ~Foreign(last.arg) /\ ~Absent(last.arg)
    /\ templates[last.arg.templateID].DeletedAt = NoTime

C22_ValidationIsInvalidInput ==
    (/\ last.t \in Threads
     /\ last.op \in ValidatingOps
     /\ last.res.err # "ok"
     /\ ~MutationFailed)
    => last.res.err \in {"InvalidInput", "NotFound", "Conflict"}

(***************************************************************************)
(* C23: the tenant stored for a template identifier never changes after    *)
(* creation, whatever the calls, also when the mutation handed to          *)
(* UpdateTemplate rewrites the tenant of the loaded copy: every stored     *)
(* template stays stored, under the same tenant.                           *)
(***************************************************************************)
C23_TenantImmutable ==
    [][\A id \in DOMAIN templates :
          /\ id \in DOMAIN templates'
          /\ templates'[id].TenantID = templates[id].TenantID]_vars

\* UpdateTemplate with a mutation that rewrites the tenant has run
\* repo.UpdateTemplate and returned; the template is stored
C23_Witness ==
    /\ last.op = "UpdateTemplate"
    /\ last.arg.mutate = "retenant"
    /\ last.res.err = ErrNotFound.err
    /\ last.arg.templateID \in DOMAIN templates
    /\ templates[last.arg.templateID].TenantID = last.arg.tenantID

(***************************************************************************)
(* C24: referential integrity.  In every reachable state every history     *)
(* entry stored under key K has template identifier K, and K is the        *)
(* identifier of a stored template; a CreateVersion for a template that is *)
(* not stored under the given tenant fails with Not-Found and stores       *)
(* nothing.                                                                *)
(***************************************************************************)
HistoriesBelong ==
    \A k \in DOMAIN versions :
        /\ k \in DOMAIN templates
        /\ \A i \in 1..Len(versions[k]) : versions[k][i].TemplateID = k

C24_ReferentialIntegrity ==
    [][/\ HistoriesBelong
       /\ HistoriesBelong'
       /\ \A t \in Threads :
            (/\ At(t, "in", "CreateVersion")
             /\ th'[t] # th[t]
             /\ Missing(templates, CallTenant(t), th[t].loc.version.TemplateID))
            => /\ last'.t = t
               /\ last'.res.err = ErrNotFound.err
               /\ versions' = versions
               /\ templates' = templates]_vars

\* repo.CreateVersion for an identifier that is not stored has returned
\* Not-Found, with histories in the store
C24_Witness ==
    /\ last.op = "CreateVersion"
    /\ last.res.err = ErrNotFound.err
    /\ Absent(last.arg)
    /\ \E k \in DOMAIN versions : Len(versions[k]) >= 2

(***************************************************************************)
(* C25: for the list R of the tenant's templates that match the filter,    *)
(* ordered by UpdatedAt descending, ListTemplates with offset o >= 0 and   *)
(* limit l returns R[o .. min(o+l, |R|)) when l > 0 and R[o .. |R|) when   *)
(* l <= 0; an offset equal to or beyond |R| gives an empty page and never  *)
(* an error; CountTemplates returns |R| whatever the offset and the limit. *)
(***************************************************************************)
Min(a, b) == IF a <= b THEN a ELSE b

\* the length of R[o .. min(o+l, n)), or of R[o .. n) when l <= 0
PageLen(n, o, l) ==
    IF o >= n THEN 0
    ELSE (IF l > 0 THEN Min(o + l, n) ELSE n) - o

C25_PageIsSliceOfSorted ==
    (last.op = "ListTemplates" /\ last.t \in Threads /\ last.arg.opt.Offset >= 0) =>
        LET opt == last.arg.opt
            m == Matching(templates, opt)
            n == Cardinality(m)
            items == IF last.res.err = "ok" THEN last.res.val.items ELSE <<>>
        IN  /\ last.res.err = "ok"
            /\ last.res.val.count = n
            /\ Len(items) = PageLen(n, opt.Offset, opt.Limit)
            /\ \A i, j \in 1..Len(items) :
                  i < j => items[i].UpdatedAt >= items[j].UpdatedAt
            /\ \E R \in SortedOrders(templates, m) :
                  \A i \in 1..Len(items) : items[i] = templates[R[opt.Offset + i]]

\* the second page of one template has been returned out of three matching
\* templates that were not all stored at the same time
C25_Witness ==
    /\ ReturnedOk("ListTemplates")
    /\ last.arg.opt.Offset = 1
    /\ last.arg.opt.Limit = 1
    /\ Len(last.res.val.items) = 1
    /\ last.res.val.count = 3
    /\ \E id \in Matching(templates, last.arg.opt) :
          templates[id].UpdatedAt > last.res.val.items[1].UpdatedAt

(***************************************************************************)
(* C26: RestoreTemplate is idempotent.  On a stored template of the tenant *)
(* it succeeds whether or not the template is soft-deleted; on an active   *)
(* template it leaves the whole store unchanged; applied once more to the  *)
(* store it has left, it gives the same store and the same result; it      *)
(* never changes the version or a history.                                 *)
(***************************************************************************)
C26_RestoreTemplateIdempotent ==
    [][(/\ last'.op = "RestoreTemplate"
        /\ last'.t \in Threads
        /\ ~Foreign(last'.arg) /\ ~Absent(last'.arg))
       => LET id == last'.arg.templateID
              again == RepoRestoreTemplate(templates', versions', last'.arg.tenantID, id)
          IN  /\ last'.res.err = "ok"
              /\ templates'[id].DeletedAt = NoTime
              /\ templates'[id].Version = templates[id].Version
              /\ versions' = versions
              /\ templates[id].DeletedAt = NoTime => templates' = templates
              /\ again.T = templates'
              /\ again.V = versions'
              /\ again.res = last'.res]_vars

\* RestoreTemplate has returned a template that was updated or restored to
\* a version before, with its history
C26_Witness ==
    /\ ReturnedOk("RestoreTemplate")
    /\ last.res.val.Version >= 2
    /\ last.res.val.DeletedAt = NoTime
    /\ Len(VersionsOf(versions, last.arg.templateID)) >= 2

MutatingCalls ==
    {"CreateTemplate", "UpdateTemplate", "SoftDeleteTemplate", "RestoreTemplate",
     "DuplicateTemplate", "DuplicateAppend", "CreateVersion", "RestoreVersion"}

ReadingCalls ==
    {"GetTemplate", "ListTemplates", "CountTemplates", "ListVersions", "CompareVersions"}

InBody(t) == th[t].pc = "in"

Exclusion ==
    /\ \A t \in Threads :
          InBody(t) => \/ th[t].call \in MutatingCalls /\ mu.w = t /\ mu.r = {}
                       \/ th[t].call \in ReadingCalls /\ t \in mu.r /\ mu.w = NoThread
    /\ \A t, u \in Threads :
          (t # u /\ InBody(t) /\ InBody(u)) =>
              (th[t].call \in ReadingCalls /\ th[u].call \in ReadingCalls)

C28_MutualExclusion ==
    [][/\ Exclusion'
       /\ (templates' # templates \/ versions' # versions) =>
             \E t \in Threads :
                /\ InBody(t)
                /\ th[t].call \in MutatingCalls
                /\ mu.w = t
                /\ th'[t] # th[t]
                /\ \A u \in Threads \ {t} : th'[u] = th[u] /\ ~InBody(u)]_vars

\* a thread is inside a mutating body while the other thread is between two
\* repository calls of its service call
C28_Witness ==
    \E t, u \in Threads :
        /\ t # u
        /\ InBody(t)
        /\ th[t].call \in MutatingCalls
        /\ th[u].pc = "call"
        /\ templates # <<>>

(***************************************************************************)
(* C29: a successful repo.DuplicateTemplate inserts exactly one template:  *)
(* its identifier is new, its version is 1, its DeletedAt is cleared and   *)
(* its usage counters are zero (also when the source is soft-deleted, used *)
(* or above version 1), its name is the override if one is given and       *)
(* otherwise the source's name followed by " Copy"; the source's record    *)
(* and history, and every other record, are unchanged, and the clone gets  *)
(* a history of one entry.  When the source is missing or the clone fails  *)
(* validation the call returns the error and stores nothing.               *)
(***************************************************************************)
\* the arguments of the DuplicateTemplate of thread t after its step
DuplicateArgAfter(t) == IF last'.t = t THEN last'.arg ELSE th'[t].arg

\* the step of thread t inserted the clone of source src under identifier id
InsertedClone(t, src, id) ==
    LET opt == DuplicateArgAfter(t).opt
    IN  /\ id \notin DOMAIN templates
        /\ id # src
        /\ DOMAIN templates' = (DOMAIN templates) \cup {id}
        /\ \A x \in DOMAIN templates : templates'[x] = templates[x]
        /\ versions' = versions
        /\ templates'[id].TemplateID = id
        /\ templates'[id].TenantID = templates[src].TenantID
        /\ templates'[id].Version = 1
        /\ templates'[id].DeletedAt = NoTime
        /\ templates'[id].DocumentsCount = 0
        /\ templates'[id].LastUsedAt = NoTime
        /\ templates'[id].Name = IF opt.NameOverride # <<>> THEN opt.NameOverride
                                 ELSE templates[src].Name \o <<" Copy">>
        /\ templates'[id].JSONSchemaURL = templates[src].JSONSchemaURL

C29_DuplicateFrame ==
    [][\A t \in Threads :
         /\ (At(t, "in", "DuplicateTemplate") /\ th'[t] # th[t]) =>
               LET arg == DuplicateArgAfter(t)
                   rejected == \/ Missing(templates, arg.tenantID, arg.templateID)
                               \/ arg.opt.CreatedBy = ""
                               \/ arg.opt.UpdatedBy = ""
               IN  IF rejected
                   THEN /\ last'.t = t
                        /\ last'.res.err # "ok"
                        /\ templates' = templates
                        /\ versions' = versions
                   ELSE /\ At(t, "in", "DuplicateAppend")'
                        /\ InsertedClone(t, arg.templateID, th'[t].loc.tpl.TemplateID)
         /\ (At(t, "in", "DuplicateAppend") /\ th'[t] # th[t]) =>
               LET id == th[t].loc.tpl.TemplateID
               IN  /\ templates' = templates
                   /\ DOMAIN versions' = (DOMAIN versions) \cup {id}
                   /\ \A k \in (DOMAIN versions) \ {id} : versions'[k] = versions[k]
                   /\ VersionsOf(versions', th[t].arg.templateID)
                        = VersionsOf(versions, th[t].arg.templateID)
                   /\ Len(versions'[id]) = Len(VersionsOf(versions, id)) + 1
                   /\ versions'[id][Len(versions'[id])].TemplateID = id
                   /\ versions'[id][Len(versions'[id])].VersionNumber = 1]_vars

\* DuplicateTemplate without copying versions has returned the clone of a
\* soft-deleted template that carries usage counters
C29_Witness ==
    /\ ReturnedOk("DuplicateTemplate")
    /\ ~last.arg.opt.CopyVersions
    /\ templates[last.arg.templateID].DeletedAt # NoTime
    /\ templates[last.arg.templateID].DocumentsCount > 0
    /\ last.res.val.DocumentsCount = 0
    /\ last.res.val.DeletedAt = NoTime
    /\ Len(VersionsOf(versions, last.res.val.TemplateID)) = 1

(***************************************************************************)
(* C30: a soft delete is not lost to a concurrent update.  Once            *)
(* SoftDeleteTemplate has set DeletedAt of a template, it stays set until  *)
(* a RestoreTemplate on that template, in every interleaving: the only     *)
(* step that clears it is the body of a RestoreTemplate addressed to it.   *)
(***************************************************************************)
\* the step is the body of a RestoreTemplate on template id
RestoresTemplate(id) ==
    \E t \in Threads :
        /\ At(t, "in", "RestoreTemplate")
        /\ last'.t = t
        /\ last'.arg.templateID = id

C30_DeleteNotLost ==
    [][\A id \in DOMAIN templates :
          (templates[id].DeletedAt # NoTime /\ templates'[id].DeletedAt = NoTime)
          => RestoresTemplate(id)]_vars

(***************************************************************************)
(* C31: a failed TemplateService.UpdateTemplate changes nothing.  When the *)
(* template is not found, the caller's mutation returns an error, or the   *)
(* validation of the mutated record fails, the stored templates (versions  *)
(* included) and the histories are what they were before the call: no step *)
(* of the call up to and including the failing return writes the store.    *)
(***************************************************************************)
\* the failures the claim names: Not-Found, and the plain errors of mutate
\* and of Template.Validate
FailsUnpersisted(res) == res.err \in {"NotFound", "Other"}

\* thread t takes this step inside UpdateTemplate, before or in the
\* repository call that persists the record
BeforePersisted(t) ==
    /\ th'[t] # th[t]
    /\ \/ th'[t].op = "UpdateTemplate" /\ th'[t].call \in {"GetTemplate", "UpdateTemplate"}
       \/ /\ th[t].op = "UpdateTemplate"
          /\ th[t].call \in {"GetTemplate", "UpdateTemplate"}
          /\ last'.t = t
          /\ FailsUnpersisted(last'.res)

C31_FailedUpdateChangesNothing ==
    [][\A t \in Threads :
          BeforePersisted(t) => templates' = templates /\ versions' = versions]_vars

\* UpdateTemplate on a stored, active template has returned the validation
\* error of the mutated record, and the stored record keeps its name and its
\* version, the number of its history's last entry
C31_Witness ==
    /\ last.op = "UpdateTemplate"
    /\ last.arg.mutate = "shorten"
    /\ last.res.err = "Other"
    /\ last.arg.templateID \in DOMAIN templates
    /\ templates[last.arg.templateID].Name # <<"ab">>
    /\ templates[last.arg.templateID].DeletedAt = NoTime
    /\ LET h == VersionsOf(versions, last.arg.templateID)
       IN  h # <<>> /\ h[Len(h)].VersionNumber = templates[last.arg.templateID].Version

(***************************************************************************)
(* C33: TemplateService.ListTemplates returns a page and a total that      *)
(* describe one store state.  With limit <= 0 and offset 0 the returned    *)
(* total equals the number of returned items, also when calls of other     *)
(* callers run between repo.ListTemplates and repo.CountTemplates.         *)
(***************************************************************************)
C33_PageAndTotalAgree ==
    (/\ ReturnedOk("ListTemplates")
     /\ last.arg.opt.Limit <= 0
     /\ last.arg.opt.Offset = 0)
    => last.res.val.count = Len(last.res.val.items)

(***************************************************************************)
(* C32: the system is deadlock-free and every call completes.  A thread    *)
(* holds the repository lock exactly while it is inside a repository call: *)
(* every return path of a repository call releases it, and the service     *)
(* makes its next repository call with no lock held.  Under fair           *)
(* scheduling every started call of the service, the multi-call Create,    *)
(* Update and Duplicate with copy_versions included, eventually returns.   *)
(***************************************************************************)
Holds(t) == mu.w = t \/ t \in mu.r

LockHeldOnlyInside == \A t \in Threads : Holds(t) <=> th[t].pc = "in"

\* no call in flight waits for room in the store
NeverFull == Quiescent \/ Room(Cardinality(Threads))

C32_EveryCallReturns ==
    /\ []LockHeldOnlyInside
    /\ \A t \in Threads : (th[t].pc # "idle") ~> (th[t].pc = "idle")

\* DuplicateTemplate with copy_versions has returned the clone with the
\* copied history while the other thread is between two repository calls
C32_Witness ==
    /\ ReturnedOk("DuplicateTemplate")
    /\ last.arg.opt.CopyVersions
    /\ Len(VersionsOf(versions, last.res.val.TemplateID)) >= 2
    /\ \E t \in Threads : th[t].pc = "call"

====
